---- MODULE Spec2Model ----
(***************************************************************************)
(* The globe / stacked-bar page of erinmiso/442final_practice.             *)
(*                                                                         *)
(* The repository holds three variants of the same page script:           *)
(*   "script"    src/script.js          datasets, white fill               *)
(*   "presence"  src/unnamed/part_000   datasets, data-presence fill,      *)
(*                                      x axis reset on an empty store     *)
(*   "random"    src/unnamed/part_001   no datasets, Math.random() values, *)
(*                                      four categories                    *)
(* The variable `variant` says which of the three scripts the page runs.   *)
(*                                                                         *)
(* Numbers: expenditure values are modelled as integers.  The rotation is  *)
(* kept in units of 1/scale degree (rotation * projection.scale()), so     *)
(* that the factor k = sensitivity / scale of the drag handler is exact:   *)
(* a change of dx * k degrees is a change of dx * sensitivity units.       *)
(* projection.rotate() is the d3 library's getter/setter; it is modelled   *)
(* as returning the angles last set.                                       *)
(***************************************************************************)
EXTENDS Integers, Sequences, FiniteSets, TLC

VARIABLES
    variant,            \* which script the page runs
    rotation,           \* projection.rotate(): <<longitude, latitude>> * scale
    selectedCountries,  \* the Set, as the sequence of its entries in iteration order
    worldPc,            \* d3.json("world.json"): "pending", "done" (callback ran), "failed"
    countryPaths,       \* the <path> elements of g.countries, in feature order
    fetchState,         \* the three d3.json dataset promises
    healthData, militaryData, educationData,   \* let healthData, militaryData, educationData
    xScaleDomain,       \* xScale.domain()
    yScaleDomain,       \* yScale.domain()
    xAxisLabels,        \* the tick labels under g.x-axis
    barGroups,          \* the g.bar-group elements with their <rect> children
    uncaught            \* callbacks that ended in an uncaught TypeError

vars == <<variant, rotation, selectedCountries, worldPc, countryPaths, fetchState,
          healthData, militaryData, educationData,
          xScaleDomain, yScaleDomain, xAxisLabels, barGroups, uncaught>>

chartVars == <<xScaleDomain, yScaleDomain, xAxisLabels, barGroups>>
dataVars == <<fetchState, healthData, militaryData, educationData>>
mapVars == <<worldPc, countryPaths>>

(***************************************************************************)
(* Bounds of the model.                                                    *)
(***************************************************************************)
MaxDelta == 1      \* a drag event's |dx| and |dy|, in pixels
MaxTurn == 1       \* drags are followed while the globe is within MaxTurn * sensitivity
                   \* units of its initial rotation

(***************************************************************************)
(* Program constants.                                                      *)
(***************************************************************************)
sensitivity == 75
initialScale == 250
InitialLatitude == -30

Variants == {"script", "presence", "random"}

(***************************************************************************)
(* Inputs: the geometry file and the three dataset files.  A dataset row   *)
(* is [Entity, hasKey, val]: hasKey = FALSE is a record without the        *)
(* dataset's numeric field (reading it gives undefined).                   *)
(***************************************************************************)
\* data.features of world.json, by properties.name.  The random variant reads no
\* dataset, so two names exercise it (each entry of its store carries four draws)
WorldFeatures ==
    IF variant = "random" THEN <<"France", "Atlantis">>
    ELSE <<"France", "Chad", "Atlantis">>

HealthFile ==
    << [Entity |-> "France", hasKey |-> TRUE, val |-> 5],
       [Entity |-> "Chad", hasKey |-> FALSE, val |-> 0],
       [Entity |-> "United States", hasKey |-> TRUE, val |-> 9] >>

MilitaryFile ==
    << [Entity |-> "Chad", hasKey |-> TRUE, val |-> 4],
       [Entity |-> "France", hasKey |-> TRUE, val |-> 2] >>

EducationFile ==
    << [Entity |-> "France", hasKey |-> TRUE, val |-> 3] >>

DatasetNames == {"health", "military", "education"}

\* Math.random() * 100, drawn once per category
RandVals == {10, 60}

(***************************************************************************)
(* JavaScript values that the lookups pass around.                         *)
(***************************************************************************)
Num(n) == [t |-> "number", v |-> n]
Null == [t |-> "null", v |-> 0]
Undefined == [t |-> "undefined", v |-> 0]
TypeError == [t |-> "TypeError", v |-> 0]

\* a dataset reference: declared but unassigned, or the parsed array
Unset == [defined |-> FALSE, rows |-> <<>>]
Loaded(rows) == [defined |-> TRUE, rows |-> rows]

\* d.Entity = country (an assignment) instead of d.Entity === country: every row matches
FindIndex_assign(rows, country, i) == IF Len(rows) > 0 THEN 1 ELSE 0

RECURSIVE FindIndex(_, _, _)
\* Array.prototype.find / some: index of the first row with Entity === country, 0 if none
FindIndex(rows, country, i) ==
    IF i > Len(rows) THEN 0
    ELSE IF rows[i].Entity = country THEN i
    ELSE FindIndex(rows, country, i + 1)

getDataForCountry(dataset, country) ==
    IF ~dataset.defined THEN TypeError            \* undefined.find(...)
    ELSE LET i == FindIndex(dataset.rows, country, 1)
         IN  IF i = 0 THEN Null
             ELSE IF dataset.rows[i].hasKey THEN Num(dataset.rows[i].val)
             ELSE Undefined

\* x || 0
OrZero(x) == IF x.t = "number" /\ x.v # 0 THEN x.v ELSE 0

spendingAreas ==
    IF variant = "random"
    THEN <<"Education", "Healthcare", "Defense", "Infrastructure">>
    ELSE <<"Health", "Military", "Education">>

Range(s) == {s[i] : i \in DOMAIN s}

\* the names a click can carry (properties.name of a feature of either world file)
CountryNames == {"France", "Chad", "Atlantis"}

(***************************************************************************)
(* Selection Store: toggleCountry.                                         *)
(***************************************************************************)
\* a membership test by object identity (selectedCountries.has(newData)) never matches
IsSelected_byIdentity(S, country) == FALSE

\* [...selectedCountries].some(d => d.name === country)
IsSelected(S, country) == \E i \in DOMAIN S : S[i].name = country

\* the filter predicate inverted: d.name === country
FilterOut_inverted(S, country) == SelectSeq(S, LAMBDA d : d.name = country)

\* new Set([...selectedCountries].filter(d => d.name !== country))
FilterOut(S, country) == SelectSeq(S, LAMBDA d : d.name # country)

\* the three lookups of the add branch, in evaluation order
Lookups(country) ==
    << getDataForCountry(healthData, country),
       getDataForCountry(militaryData, country),
       getDataForCountry(educationData, country) >>

\* the add branch ends in a TypeError when a lookup dereferences an unassigned dataset
LookupThrows(country) ==
    /\ variant # "random"
    /\ \E i \in 1..3 : Lookups(country)[i].t = "TypeError"

\* the draws of Math.random() * 100, one per category of the random variant
RandomDraws == [{"Education", "Healthcare", "Defense", "Infrastructure"} -> RandVals]

\* the draws the call makes: Math.random() runs in the add branch of the random variant
NoDraw == [a \in {} |-> 0]
Draws(S, country) ==
    IF variant = "random" /\ ~IsSelected(S, country) THEN RandomDraws ELSE {NoDraw}

\* let newData = { name: country, data: {...} }
NewEntry(country, r) ==
    IF variant = "random"
    THEN [name |-> country, data |-> r]
    ELSE [name |-> country,
          data |-> [Health |-> OrZero(Lookups(country)[1]),
                    Military |-> OrZero(Lookups(country)[2]),
                    Education |-> OrZero(Lookups(country)[3])]]

\* the new entry put first (unshift on the array) instead of added at the end of the Set
ToggleStore_prepend(S, country, r) ==
    IF IsSelected(S, country) THEN FilterOut(S, country)
    ELSE IF LookupThrows(country) THEN S
    ELSE <<NewEntry(country, r)>> \o S

\* the Selection Store after toggleCountry(country); r is used by the random variant only
ToggleStore(S, country, r) ==
    IF IsSelected(S, country) THEN FilterOut(S, country)
    ELSE IF LookupThrows(country) THEN S
    ELSE Append(S, NewEntry(country, r))

(***************************************************************************)
(* Bar chart: updateChart.                                                 *)
(***************************************************************************)
RECURSIVE SumUpTo(_, _, _)
\* keys.slice(0, n).reduce((sum, key) => sum + d.data[key], 0)
SumUpTo(d, keys, n) ==
    IF n = 0 THEN 0 ELSE SumUpTo(d, keys, n - 1) + d.data[keys[n]]

\* a grouped chart instead of a stacked one: every series starts at 0
SegmentLow_unstacked(d, keys, i) == 0

\* d3.stack(): series i starts where series i - 1 ended
SegmentLow(d, keys, i) == SumUpTo(d, keys, i - 1)
SegmentHigh(d, keys, i) == SegmentLow(d, keys, i) + d.data[keys[i]]

\* d3.stack().keys(spendingAreas).value((d, key) => d.data[key])(dataArray), bound to
\* one g.bar-group per key and one rect per datum
stackedData(keys, dataArray) ==
    [i \in 1..Len(keys) |->
        [key |-> keys[i],
         rects |-> [j \in 1..Len(dataArray) |->
                      [name |-> dataArray[j].name,
                       low |-> SegmentLow(dataArray[j], keys, i),
                       high |-> SegmentHigh(dataArray[j], keys, i)]]]]

Names(dataArray) == [j \in 1..Len(dataArray) |-> dataArray[j].name]

MaxOf(set) == CHOOSE m \in set : \A x \in set : x <= m

\* d3.max(dataArray, d => spendingAreas.reduce((sum, key) => sum + d.data[key], 0))
MaxTotal(dataArray) ==
    MaxOf({SumUpTo(dataArray[j], spendingAreas, Len(spendingAreas)) : j \in DOMAIN dataArray})

\* the branch of updateChart for dataArray.length === 0
EmptyChart ==
    /\ barGroups' = <<>>
    /\ IF variant = "presence"
       THEN xScaleDomain' = <<>> /\ xAxisLabels' = <<>>
       ELSE UNCHANGED <<xScaleDomain, xAxisLabels>>
    /\ UNCHANGED yScaleDomain

updateChart(dataArray) ==
    IF Len(dataArray) = 0 THEN EmptyChart
    ELSE /\ xScaleDomain' = Names(dataArray)
         /\ yScaleDomain' = <<0, MaxTotal(dataArray)>>
         /\ xAxisLabels' = Names(dataArray)
         /\ barGroups' = stackedData(spendingAreas, dataArray)

\* the click handler of a country path is attached
Clickable(country) ==
    \E i \in DOMAIN countryPaths : countryPaths[i].name = country /\ countryPaths[i].click

toggleCountry(country) ==
    /\ Clickable(country)
    /\ \E r \in Draws(selectedCountries, country) :
         selectedCountries' = ToggleStore(selectedCountries, country, r)
    /\ IF ~IsSelected(selectedCountries, country) /\ LookupThrows(country)
       THEN /\ uncaught' = uncaught \cup {"toggleCountry"}
            /\ UNCHANGED chartVars
       ELSE /\ updateChart(selectedCountries')
            /\ UNCHANGED uncaught
    /\ UNCHANGED <<variant, rotation, mapVars, dataVars>>

(***************************************************************************)
(* Globe: drag handler and world map callback.                             *)
(***************************************************************************)
UnitsPerDegree == initialScale       \* rotation is kept in 1/scale degrees
projectionScale == initialScale      \* projection.scale(): set once, never changed

\* k = sensitivity / projection.scale(), in rotation units per pixel
k == (sensitivity * UnitsPerDegree) \div projectionScale

\* the latitude moved with the pointer instead of against it
DragRotate_sameSign(rotate, dx, dy) == <<rotate[1] + dx * k, rotate[2] + dy * k>>

\* [rotate[0] + event.dx * k, rotate[1] - event.dy * k]
DragRotate(rotate, dx, dy) == <<rotate[1] + dx * k, rotate[2] - dy * k>>

InitialRotation == <<0, InitialLatitude * UnitsPerDegree>>

WithinTurn(rot) ==
    /\ rot[1] - InitialRotation[1] \in -(MaxTurn * sensitivity) .. MaxTurn * sensitivity
    /\ rot[2] - InitialRotation[2] \in -(MaxTurn * sensitivity) .. MaxTurn * sensitivity

drag(dx, dy) ==
    /\ WithinTurn(DragRotate(rotation, dx, dy))
    /\ rotation' = DragRotate(rotation, dx, dy)
    \* svg.selectAll("path").attr("d", path)
    /\ countryPaths' = [i \in DOMAIN countryPaths |-> [countryPaths[i] EXCEPT !.d = rotation']]
    /\ UNCHANGED <<variant, selectedCountries, worldPc, dataVars, chartVars, uncaught>>

HasDataFill == "36454F"
NoDataFill == "#ccc"

\* hasData(country): "true", "false", or "TypeError" when a dataset it reaches is unassigned
hasData(country) ==
    LET some(ds) == IF ~ds.defined THEN "TypeError"
                    ELSE IF FindIndex(ds.rows, country, 1) # 0 THEN "true" ELSE "false"
    IN  IF some(healthData) # "false" THEN some(healthData)
        ELSE IF some(militaryData) # "false" THEN some(militaryData)
        ELSE some(educationData)

\* the fill attribute function of the variant
FillOf(country) ==
    IF variant = "presence"
    THEN (IF hasData(country) = "true" THEN HasDataFill ELSE NoDataFill)
    ELSE "white"

\* index of the first feature whose fill function throws, 0 if none
FirstThrow ==
    IF variant # "presence" THEN 0
    ELSE LET bad == {i \in DOMAIN WorldFeatures : hasData(WorldFeatures[i]) = "TypeError"}
         IN  IF bad = {} THEN 0 ELSE CHOOSE i \in bad : \A j \in bad : i <= j

\* d3.json("world.json").then(data => ...): append the paths, then class, d, fill,
\* stroke, opacity and the three handlers, attribute by attribute over all paths
worldLoaded ==
    /\ worldPc = "pending"
    /\ worldPc' = "done"
    /\ countryPaths' =
         [i \in DOMAIN WorldFeatures |->
            [name |-> WorldFeatures[i],
             d |-> rotation,
             fill |-> IF FirstThrow = 0 \/ i < FirstThrow
                      THEN FillOf(WorldFeatures[i]) ELSE "",
             click |-> FirstThrow = 0,
             hover |-> FirstThrow = 0]]
    /\ uncaught' = IF FirstThrow = 0 THEN uncaught ELSE uncaught \cup {"worldLoaded"}
    /\ UNCHANGED <<variant, rotation, selectedCountries, dataVars, chartVars>>

\* the world.json request fails: the callback never runs
worldFailed ==
    /\ worldPc = "pending"
    /\ worldPc' = "failed"
    /\ UNCHANGED <<variant, rotation, selectedCountries, countryPaths, dataVars,
                   chartVars, uncaught>>

(***************************************************************************)
(* Dataset loader: Promise.all([...]).then(...).                           *)
(***************************************************************************)
\* one of the three d3.json requests settles
fetchSettled(ds, outcome) ==
    /\ fetchState[ds] = "pending"
    /\ fetchState' = [fetchState EXCEPT ![ds] = outcome]
    /\ UNCHANGED <<variant, rotation, selectedCountries, mapVars,
                   healthData, militaryData, educationData, chartVars, uncaught>>

\* Promise.all fulfils only when all three requests did; its callback assigns all three
datasetsLoaded ==
    /\ \A ds \in DatasetNames : fetchState[ds] = "ok"
    /\ ~educationData.defined
    /\ healthData' = Loaded(HealthFile)
    /\ militaryData' = Loaded(MilitaryFile)
    /\ educationData' = Loaded(EducationFile)
    /\ UNCHANGED <<variant, rotation, selectedCountries, mapVars, fetchState,
                   chartVars, uncaught>>

Init ==
    /\ variant \in Variants
    /\ rotation = InitialRotation
    /\ selectedCountries = <<>>
    /\ worldPc = "pending"
    /\ countryPaths = <<>>
    /\ fetchState = [ds \in DatasetNames |-> IF variant = "random" THEN "none" ELSE "pending"]
    /\ healthData = Unset
    /\ militaryData = Unset
    /\ educationData = Unset
    /\ xScaleDomain = <<>>
    /\ yScaleDomain = <<0, 1>>
    /\ xAxisLabels = <<>>
    /\ barGroups = <<>>
    /\ uncaught = {}

Next ==
    \/ \E country \in CountryNames : toggleCountry(country)
    \/ \E dx \in -MaxDelta..MaxDelta, dy \in -MaxDelta..MaxDelta : drag(dx, dy)
    \/ worldLoaded
    \/ worldFailed
    \/ \E ds \in DatasetNames, outcome \in {"ok", "failed"} : fetchSettled(ds, outcome)
    \/ datasetsLoaded

Spec == Init /\ [][Next]_vars

(***************************************************************************)
(* Properties.                                                             *)
(***************************************************************************)
\* the dataset files have no record whose Entity equals the name
NoRecord(file, country) == \A i \in DOMAIN file : file[i].Entity # country
NoRecordAnywhere(country) ==
    /\ NoRecord(HealthFile, country)
    /\ NoRecord(MilitaryFile, country)
    /\ NoRecord(EducationFile, country)

NameSet(S) == {S[i].name : i \in DOMAIN S}

\* C1: in every reachable state the Selection Store holds at most one entry per
\* country name.
C1_UniqueNames ==
    \A i, j \in DOMAIN selectedCountries :
        selectedCountries[i].name = selectedCountries[j].name => i = j

C1_Witness ==
    /\ Len(selectedCountries) >= 2
    /\ rotation # InitialRotation
    /\ variant = "random" \/ healthData.defined

\* the store after toggleCountry(country) twice in a row, with draws r1 and r2
ToggleTwice(S, country, r1, r2) == ToggleStore(ToggleStore(S, country, r1), country, r2)

C3_UnloadedLookupIsNoMatch ==
    [][\A country \in CountryNames :
         ( /\ toggleCountry(country)
           /\ variant # "random"
           /\ ~(country \in NameSet(selectedCountries))
           /\ ~healthData.defined )
         => /\ uncaught' = uncaught
            /\ \E i \in DOMAIN selectedCountries' :
                 /\ selectedCountries'[i].name = country
                 /\ \A a \in DOMAIN selectedCountries'[i].data :
                      selectedCountries'[i].data[a] = 0
            /\ xScaleDomain' = Names(selectedCountries')]_vars

\* C4: a selected country without a record in any of the three datasets has the
\* number 0 for Health, Military and Education, and each of its stacked segments
\* has low = high.
C4_AbsentCountryIsZero ==
    variant # "random" =>
      /\ \A i \in DOMAIN selectedCountries :
           NoRecordAnywhere(selectedCountries[i].name) =>
             /\ DOMAIN selectedCountries[i].data = {"Health", "Military", "Education"}
             /\ \A a \in {"Health", "Military", "Education"} :
                  selectedCountries[i].data[a] = 0
      /\ \A g \in DOMAIN barGroups :
           \A j \in DOMAIN barGroups[g].rects :
             NoRecordAnywhere(barGroups[g].rects[j].name) =>
               barGroups[g].rects[j].low = barGroups[g].rects[j].high

C4_Witness ==
    /\ variant = "presence"
    /\ NameSet(selectedCountries) = {"France", "Atlantis"}
    /\ \E g \in DOMAIN barGroups : \E j \in DOMAIN barGroups[g].rects :
         barGroups[g].rects[j].name = "Atlantis"

\* C5: when the only selected country is toggled, the chart has no bar group left,
\* the horizontal scale's domain is empty and no country name is left as an axis label.
C5_RemovingLastResetsAxis ==
    [][\A country \in CountryNames :
         ( /\ toggleCountry(country)
           /\ Len(selectedCountries) = 1
           /\ selectedCountries[1].name = country )
         => /\ selectedCountries' = <<>>
            /\ barGroups' = <<>>
            /\ xScaleDomain' = <<>>
            /\ xAxisLabels' = <<>>]_vars

\* the categories of the variant, in declared order
DeclaredOrder ==
    IF variant = "random"
    THEN <<"Education", "Healthcare", "Defense", "Infrastructure">>
    ELSE <<"Health", "Military", "Education">>

\* the sum of an entry's category values
EntryTotal(e) ==
    IF variant = "random"
    THEN e.data["Education"] + e.data["Healthcare"] + e.data["Defense"]
           + e.data["Infrastructure"]
    ELSE e.data["Health"] + e.data["Military"] + e.data["Education"]

\* C6: for a non-empty selection the chart holds, per category in declared order
\* (Health, Military, Education) and per selected country, a segment whose low is 0
\* for the first category and the previous segment's high otherwise, whose
\* high - low is the country's value, the topmost high being the sum of the values;
\* the vertical domain is [0, M], M the largest such sum.
C6_StackedSegments ==
    selectedCountries # <<>> =>
      /\ variant # "random" => DeclaredOrder = <<"Health", "Military", "Education">>
      /\ Len(barGroups) = Len(DeclaredOrder)
      /\ \A g \in DOMAIN barGroups :
           /\ barGroups[g].key = DeclaredOrder[g]
           /\ Len(barGroups[g].rects) = Len(selectedCountries)
           /\ \A j \in DOMAIN selectedCountries :
                LET seg == barGroups[g].rects[j]
                    e == selectedCountries[j]
                IN  /\ seg.name = e.name
                    /\ seg.low = IF g = 1 THEN 0 ELSE barGroups[g - 1].rects[j].high
                    /\ seg.high - seg.low = e.data[DeclaredOrder[g]]
                    /\ g = Len(DeclaredOrder) => seg.high = EntryTotal(e)
      /\ yScaleDomain[1] = 0
      /\ \E j \in DOMAIN selectedCountries : yScaleDomain[2] = EntryTotal(selectedCountries[j])
      /\ \A j \in DOMAIN selectedCountries : EntryTotal(selectedCountries[j]) <= yScaleDomain[2]

C6_Witness ==
    /\ variant = "script"
    /\ NameSet(selectedCountries) = {"France", "Chad"}
    /\ \E j \in DOMAIN selectedCountries :
         /\ selectedCountries[j].name = "France"
         /\ selectedCountries[j].data = [Health |-> 5, Military |-> 2, Education |-> 3]
         /\ barGroups[3].rects[j].high = 10
    /\ yScaleDomain = <<0, 10>>

\* C7: a drag event with delta (dx, dy) changes the rotation longitude by
\* dx * sensitivity / scale and the latitude by -dy * sensitivity / scale (rotation
\* in 1/UnitsPerDegree degrees), with any number of rendered countries, and leaves
\* the Selection Store and the chart unchanged.
C7_DragRotation ==
    [][\A dx, dy \in -MaxDelta..MaxDelta :
         drag(dx, dy) =>
           /\ (rotation'[1] - rotation[1]) * projectionScale = dx * sensitivity * UnitsPerDegree
           /\ (rotation'[2] - rotation[2]) * projectionScale
                = (0 - dy) * sensitivity * UnitsPerDegree
           /\ selectedCountries' = selectedCountries
           /\ <<xScaleDomain, yScaleDomain, xAxisLabels, barGroups>>'
                = <<xScaleDomain, yScaleDomain, xAxisLabels, barGroups>>]_vars

C7_Witness ==
    /\ rotation[1] # InitialRotation[1]
    /\ rotation[2] # InitialRotation[2]
    /\ Len(countryPaths) = 3
    /\ \A i \in DOMAIN countryPaths : countryPaths[i].d = rotation
    /\ Len(selectedCountries) = 2
    /\ barGroups # <<>>

\* C8: in the data-presence variant, once the map callback has run every country is
\* rendered with its click and hover handlers and with the "no data" or the "has
\* data" fill: "no data" when the callback ran before the datasets were assigned,
\* and otherwise "has data" exactly when some dataset has a record of that name.
C8_EveryCountryRendered ==
    (variant = "presence" /\ worldPc = "done") =>
      /\ Len(countryPaths) = Len(WorldFeatures)
      /\ \A i \in DOMAIN countryPaths :
           /\ countryPaths[i].click
           /\ countryPaths[i].hover
           /\ countryPaths[i].fill \in {NoDataFill, HasDataFill}
           /\ countryPaths[i].fill = HasDataFill => ~NoRecordAnywhere(countryPaths[i].name)
           /\ "worldLoaded" \in uncaught => countryPaths[i].fill = NoDataFill

\* C9: when the load of one dataset fails and the loads are all settled, the datasets
\* whose loads succeeded are available and toggleCountry raises no error.
C9_LoadsIndependent ==
    ( /\ variant # "random"
      /\ \A ds \in DatasetNames : fetchState[ds] # "pending"
      /\ \E ds \in DatasetNames : fetchState[ds] = "failed" )
    => /\ fetchState["health"] = "ok" => healthData.defined
       /\ fetchState["military"] = "ok" => militaryData.defined
       /\ fetchState["education"] = "ok" => educationData.defined
       /\ "toggleCountry" \notin uncaught

\* C10: the chart agrees with the Selection Store: the horizontal domain is the list
\* of selected names in store order and there is exactly one rectangle per
\* (selected country, category) pair.
C10_ChartAgreesWithStore ==
    /\ Len(xScaleDomain) = Len(selectedCountries)
    /\ \A j \in DOMAIN selectedCountries : xScaleDomain[j] = selectedCountries[j].name
    /\ IF selectedCountries = <<>> THEN barGroups = <<>>
       ELSE /\ Len(barGroups) = Len(DeclaredOrder)
            /\ \A g \in DOMAIN barGroups :
                 /\ barGroups[g].key = DeclaredOrder[g]
                 /\ Len(barGroups[g].rects) = Len(selectedCountries)
                 /\ \A j \in DOMAIN selectedCountries :
                      barGroups[g].rects[j].name = selectedCountries[j].name

\* with the datasets assigned before the map callback runs, a country has the "has
\* data" fill exactly when some dataset has a record of its name
PresenceFillWhenDataFirst ==
    (variant = "presence" /\ worldPc = "done" /\ "worldLoaded" \notin uncaught) =>
      \A i \in DOMAIN countryPaths :
        /\ countryPaths[i].click
        /\ countryPaths[i].fill
             = IF NoRecordAnywhere(countryPaths[i].name) THEN NoDataFill ELSE HasDataFill

\* T is S with the entry at index i deleted and all other entries kept in order
DeletedAt(S, T, i) ==
    /\ Len(T) = Len(S) - 1
    /\ \A n \in 1..(i - 1) : T[n] = S[n]
    /\ \A n \in i..Len(T) : T[n] = S[n + 1]

\* C11: the store's iteration order is the order of the selecting clicks: a toggle of
\* an unselected name that adds puts the new entry after all others, which stay as
\* they were; a toggle of a selected name deletes exactly the entry of that name and
\* keeps the order, names and values of the others; and the bars are laid out in
\* that order.
C11_SelectionOrder ==
    [][\A country \in CountryNames :
         toggleCountry(country) =>
           /\ IF \E i \in DOMAIN selectedCountries : selectedCountries[i].name = country
              THEN \E i \in DOMAIN selectedCountries :
                     /\ selectedCountries[i].name = country
                     /\ DeletedAt(selectedCountries, selectedCountries', i)
                     /\ \A n \in DOMAIN selectedCountries' :
                          selectedCountries'[n].name # country
              ELSE \/ /\ selectedCountries' = selectedCountries
                      /\ "toggleCountry" \in uncaught'
                   \/ /\ Len(selectedCountries') = Len(selectedCountries) + 1
                      /\ \A n \in DOMAIN selectedCountries :
                           selectedCountries'[n] = selectedCountries[n]
                      /\ selectedCountries'[Len(selectedCountries')].name = country
           /\ selectedCountries' # <<>> =>
                /\ Len(xScaleDomain') = Len(selectedCountries')
                /\ \A n \in DOMAIN selectedCountries' :
                     /\ xScaleDomain'[n] = selectedCountries'[n].name
                     /\ \A g \in DOMAIN barGroups' :
                          barGroups'[g].rects[n].name = selectedCountries'[n].name]_vars

\* a store whose order is the click order Chad, Atlantis, France, not the feature order
C11_Witness ==
    /\ variant = "script"
    /\ Len(selectedCountries) = 3
    /\ selectedCountries[1].name = "Chad"
    /\ selectedCountries[2].name = "Atlantis"
    /\ selectedCountries[3].name = "France"
    /\ xScaleDomain = <<"Chad", "Atlantis", "France">>

====
